---- MODULE Spec2Model ----
(***************************************************************************)
(* A model of wgpu-mandelbrot's host-side core:                            *)
(*   - compute.rs : mandelbrot_dispatch_size and the pixel index formula   *)
(*   - colour.rs  : HistogramColouring (new / reset / update_colours)      *)
(*   - the frame loop that partitions the readback into the next work      *)
(*     list and the newly escaped batch                                    *)
(***************************************************************************)
EXTENDS Integers, Sequences, FiniteSets, TLC

VARIABLES
    \* ---- dispatch planning (compute.rs) ----
    dpc,            \* position of the dispatch scenario
    total_work,     \* argument of mandelbrot_dispatch_size
    shape,          \* the returned (x, y, z)
    inv_a,          \* one invocation of the dispatched grid: <<x_id, y_id>>
    inv_b,          \* another invocation of the dispatched grid
    item,           \* a live work item, an index in [0, total_work)
    \* ---- HistogramColouring (colour.rs) ----
    total_samples,      \* total_samples: usize
    bucket_labels,      \* bucket_labels: Vec<u32>
    histogram,          \* histogram: FnvHashMap<u32, u32>
    histogram_ranges,   \* histogram_ranges: FnvHashMap<u32, f32>
    \* ---- the caller's buffers ----
    colour_ranges,      \* colour_ranges: &mut [ColourRange], one per grid cell
    all_pixels,         \* all_pixels: &[Pixel], the point store, one per grid cell
    work_list,          \* the points that have not escaped yet, in submission order
    screen_size,        \* screen_size: screen::Size
    folded,             \* iteration count -> samples passed to update_colours this epoch
    updates,            \* number of non-empty update_colours calls this epoch
    last_op,            \* the latest operation on the colouring
    panicked,           \* "none", or the panic that ended the program
    was_reset,          \* a reset has happened since new()
    \* ---- readback ----
    staging,            \* the host-mappable staging buffer, one record per grid cell
    \* ---- main.rs: the event loop ----
    window_size,                \* size: window.inner_size() at start-up, captured by the closure
    grid_size,                  \* the size last configured (surface_configuration, screen_size_buffer)
    zoom,                       \* zoom: f32
    origin,                     \* origin: Vec2, as its offset from the start-up value
    cursor_position,            \* cursor_position: Vec2
    iteration_counts_in_buffer,     \* one IterationCount per cell
    iteration_counts_out_buffer,
    starting_values_in_buffer,      \* one Complex per cell
    starting_values_out_buffer,
    current_iteration_count,    \* current_iteration_count
    events_since,               \* pan / zoom events handled since the last frame
    resets_since,               \* per-pixel state resets performed since the last frame
    handled,                    \* pan / zoom / resize events handled so far
    last_event,                 \* the latest handler that ran
    crashed,                    \* "none", or the panic that ended the event loop
    buffer_handles,             \* which wgpu::Buffer each of the four bindings holds
    bound_buffers,              \* the buffers compute_bind_group_2 bound in the latest frame
    \* ---- ReadbackSync ----
    fpc,                \* the frame thread's position in the readback protocol
    hpc,                \* the latest helper: "off", "polling", "callback", "signal", "done" (its loop is over)
    mutex,              \* holder of the mutex that guards the flag: "free", "frame", "callback"
    flag,               \* the shared boolean the callback flips
    seen,               \* the frame thread's latest reading of the flag
    waited,             \* the frame thread has slept on the condition variable this frame
    device,             \* the device queue: "idle", "dispatch", "copy", "done"
    map_requested,      \* a map_async request is outstanding
    sync_frame,         \* the number of the current frame
    output_bytes,       \* the frame whose dispatch wrote the device output buffer
    staging_bytes,      \* the frame whose bytes the staging region holds
    read_bytes,         \* the frame whose bytes the frame thread last read
    spawned,            \* the helper tasks spawned so far
    alive,              \* the helper tasks spawned and not yet terminated
    \* ---- callers outside the frame loop ----
    passed,             \* the pixels passed as newly escaped since the last reset
    wide_total_work,    \* total_work: usize of 64 bits, as four 16-bit limbs, low first
    wide_shape          \* what mandelbrot_dispatch_size made of wide_total_work

dvars == <<dpc, total_work, shape, inv_a, inv_b, item>>

hvars == <<total_samples, bucket_labels, histogram, histogram_ranges>>

cvars == <<total_samples, bucket_labels, histogram, histogram_ranges, colour_ranges,
           all_pixels, work_list, screen_size, folded, updates, last_op, panicked, was_reset>>

bvars == <<iteration_counts_in_buffer, iteration_counts_out_buffer,
           starting_values_in_buffer, starting_values_out_buffer>>

mvars == <<window_size, grid_size, zoom, origin, cursor_position,
           iteration_counts_in_buffer, iteration_counts_out_buffer,
           starting_values_in_buffer, starting_values_out_buffer,
           current_iteration_count, events_since, resets_since, handled,
           last_event, crashed, buffer_handles, bound_buffers>>

svars == <<fpc, hpc, mutex, flag, seen, waited, device, map_requested, sync_frame,
           output_bytes, staging_bytes, read_bytes, spawned, alive>>

wvars == <<passed, wide_total_work, wide_shape>>

xvars == <<staging, window_size, grid_size, zoom, origin, cursor_position,
           iteration_counts_in_buffer, iteration_counts_out_buffer,
           starting_values_in_buffer, starting_values_out_buffer,
           current_iteration_count, events_since, resets_since, handled,
           last_event, crashed, buffer_handles, bound_buffers,
           fpc, hpc, mutex, flag, seen, waited, device, map_requested, sync_frame,
           output_bytes, staging_bytes, read_bytes, spawned, alive,
           passed, wide_total_work, wide_shape>>

vars == <<dpc, total_work, shape, inv_a, inv_b, item,
          total_samples, bucket_labels, histogram, histogram_ranges, colour_ranges,
          all_pixels, work_list, screen_size, folded, updates, last_op, panicked, was_reset,
          staging, window_size, grid_size, zoom, origin, cursor_position,
          iteration_counts_in_buffer, iteration_counts_out_buffer,
          starting_values_in_buffer, starting_values_out_buffer,
          current_iteration_count, events_since, resets_since, handled,
          last_event, crashed, buffer_handles, bound_buffers,
          fpc, hpc, mutex, flag, seen, waited, device, map_requested, sync_frame,
          output_bytes, staging_bytes, read_bytes, spawned, alive,
          passed, wide_total_work, wide_shape>>

\* A pair of buffer bindings that holds no buffer.
NoPair == [input |-> 0, output |-> 0]

\* No buffer created.
NoHandles == [starting_values |-> NoPair, iteration_counts |-> NoPair]

\* No frame has bound the present buffers yet.
Unbound == [valid |-> FALSE, starting_values |-> NoPair, iteration_counts |-> NoPair]

\* The event loop of main.rs, not running.
MainIdle ==
    /\ window_size = [width |-> 0, height |-> 0]
    /\ grid_size = [width |-> 0, height |-> 0]
    /\ zoom = <<1, 1>>
    /\ origin = <<<<0, 1>>, <<0, 1>>>>
    /\ cursor_position = <<0, 0>>
    /\ iteration_counts_in_buffer = <<>>
    /\ iteration_counts_out_buffer = <<>>
    /\ starting_values_in_buffer = <<>>
    /\ starting_values_out_buffer = <<>>
    /\ current_iteration_count = 0
    /\ events_since = 0
    /\ resets_since = 0
    /\ handled = 0
    /\ last_event = "none"
    /\ crashed = "none"
    /\ buffer_handles = NoHandles
    /\ bound_buffers = Unbound

\* No readback in progress.
SyncIdle ==
    /\ fpc = "idle"
    /\ hpc = "off"
    /\ mutex = "free"
    /\ flag = FALSE
    /\ seen = FALSE
    /\ waited = FALSE
    /\ device = "idle"
    /\ map_requested = FALSE
    /\ sync_frame = 0
    /\ output_bytes = 0
    /\ staging_bytes = 0
    /\ read_bytes = 0
    /\ spawned = 0
    /\ alive = 0

\* No wide dispatch planned, no pixel passed.
WideIdle ==
    /\ passed = {}
    /\ wide_total_work = <<0, 0, 0, 0>>
    /\ wide_shape = [status |-> "none", x |-> <<0, 0>>, y |-> 0, z |-> 0]

\* The variables outside a scenario's scope, at rest.
ExtrasIdle ==
    /\ staging = <<>>
    /\ MainIdle
    /\ SyncIdle
    /\ WideIdle

(***************************************************************************)
(* compute.rs                                                              *)
(***************************************************************************)

\* pub const MANDELBROT_WORKGROUP_SIZE_Y: u32 = 64;
MANDELBROT_WORKGROUP_SIZE_Y == 64

\* pub const MANDELBROT_DISPATCH_SIZE_Y: u32 = 1024;
MANDELBROT_DISPATCH_SIZE_Y == 1024

\* maxComputeWorkgroupsPerDimension, "limit of 65535 (2^16 - 1)"
MaxComputeWorkgroupsPerDimension == 65535

\* The largest total_work of the dispatch-safety range [0, 50_000_000].
MaxTotalWork == 50000000

\* Number of whole chunks of 1024 * 64 invocations around which inputs are drawn.
MaxChunks == 3

\* One chunk: dispatch y size * workgroup y size invocations.
ChunkSize == MANDELBROT_DISPATCH_SIZE_Y * MANDELBROT_WORKGROUP_SIZE_Y

\* A variant that forgets the "+ 1" (plain truncating division).
mandelbrot_dispatch_size_trunc(tw) ==
    <<tw \div ChunkSize, MANDELBROT_DISPATCH_SIZE_Y, 1>>

\* pub fn mandelbrot_dispatch_size(total_work: usize) -> (u32, u32, u32)
mandelbrot_dispatch_size(tw) ==
    <<tw \div (MANDELBROT_DISPATCH_SIZE_Y * MANDELBROT_WORKGROUP_SIZE_Y) + 1,
      MANDELBROT_DISPATCH_SIZE_Y,
      1>>

\* The earlier index formula of the doc comment, with chunks of 65535.
pixel_index_65535(x_id, y_id) == x_id * 65535 + y_id

\* "global_invocation_id.x * (1024 * 64) + global_invocation_id.y"
pixel_index(x_id, y_id) == x_id * (1024 * 64) + y_id

\* The compute shader grid of a dispatch (x, y, 1) with @workgroup_size(1, 64, 1):
\* global_invocation_id.x in [0, x), global_invocation_id.y in [0, y * 64).
GridX(s) == 0 .. (s[1] - 1)
GridY(s) == 0 .. (s[2] * MANDELBROT_WORKGROUP_SIZE_Y - 1)

\* Inputs: every chunk boundary up to MaxChunks chunks, its neighbours, and the
\* top of the range.
TotalWorkInputs ==
    { k * ChunkSize + d : k \in 0 .. MaxChunks, d \in {0, 1, 2, ChunkSize - 1} }
        \cup { MaxChunks * ChunkSize + ChunkSize, MaxTotalWork - 1, MaxTotalWork }

\* The invocations looked at: the corners of the grid and their neighbours.
Near(lo, hi) == { v \in {lo, lo + 1, hi - 1, hi} : lo <= v /\ v <= hi }
Invocations(s) ==
    { <<x_id, y_id>> : x_id \in { v \in Near(0, s[1] - 1) : v \in GridX(s) },
                       y_id \in { v \in Near(0, s[2] * MANDELBROT_WORKGROUP_SIZE_Y - 1) :
                                    v \in GridY(s) } }

\* The work items looked at: both ends of [0, total_work) and both sides of
\* every chunk boundary below MaxChunks chunks.
Items(tw) ==
    { i \in Near(0, tw - 1) \cup { k * ChunkSize + d : k \in 1 .. MaxChunks, d \in {-1, 0} } :
        0 <= i /\ i < tw }

(***************************************************************************)
(* screen.rs, pixel.rs                                                     *)
(***************************************************************************)

\* pub struct Size { width, height }
Size(width, height) == [width |-> width, height |-> height]

\* Largest iteration count the device reports for an escaped point.
MaxIterationCount == 5

\* Largest number of samples one epoch folds into the histogram.
MaxSamples == 3

\* The iteration counts the device reports for escaped points.
IterationCounts == 3 .. MaxIterationCount

\* Number of grid cells, and the cells as indices of the full-grid arrays.
GridArea(size) == size.width * size.height
Cells(size) == 0 .. (GridArea(size) - 1)

\* An index that forgets the row offset.
GridIndex_x_only(size, pixel) == pixel.x

\* "pixel.y as usize * screen_size.width as usize + pixel.x as usize"
GridIndex(size, pixel) == pixel.y * size.width + pixel.x

\* pub struct Pixel { x, y, escaped, current_value, iteration_count }
\* (current_value is written and read by the device alone).
Pixel(x, y, escaped, iteration_count) ==
    [x |-> x, y |-> y, escaped |-> escaped, iteration_count |-> iteration_count]

\* The pixel of grid cell i with fresh zeroed state.
FreshPixel(size, i) == Pixel(i % size.width, i \div size.width, 0, 0)

(***************************************************************************)
(* f32 arithmetic of colour.rs: `acc as f32 / total_samples as f32`.       *)
(* An f32 quotient of two integers below 2^24 is the correctly rounded     *)
(* value of the exact ratio, so it is determined by the ratio in lowest    *)
(* terms; the model keeps that ratio <<numerator, denominator>>.           *)
(***************************************************************************)

RECURSIVE Gcd(_, _)
Gcd(a, b) == IF b = 0 THEN a ELSE Gcd(b, a % b)

RECURSIVE Pow2Above(_, _)
\* The least power of two p >= q with n \div p < 2^24.
Pow2Above(n, q) == IF n \div q < 16777216 THEN q ELSE Pow2Above(n, 2 * q)

\* `n as f32`: exact below 2^24, else rounded to 24 significant bits, ties to even.
AsF32(n) ==
    LET q   == Pow2Above(n, 1)
        lo  == (n \div q) * q
        rem == n - lo
    IN  IF q = 1 THEN n
        ELSE IF 2 * rem < q THEN lo
        ELSE IF 2 * rem > q THEN lo + q
        ELSE IF (n \div q) % 2 = 0 THEN lo ELSE lo + q

\* a / b on f32 operands holding integers >= 0: x / 0.0 is +inf (<<1, 0>>) and
\* 0.0 / 0.0 is NaN (<<0, 0>>).
F32Div(a, b) ==
    LET g == Gcd(a, b) IN IF g = 0 THEN <<0, 0>> ELSE <<a \div g, b \div g>>

\* The f32 0.0 of ColourRange::default().
F32Zero == <<0, 1>>

\* a <= b on the modelled f32 values (false when either is NaN).
F32Leq(a, b) == a # <<0, 0>> /\ b # <<0, 0>> /\ a[1] * b[2] <= b[1] * a[2]

(***************************************************************************)
(* colour.rs                                                               *)
(***************************************************************************)

\* impl Default for ColourRange
ColourRangeDefault == [escaped |-> 0, value |-> F32Zero]

\* HistogramColouring::new()
HistogramColouringNew ==
    [total_samples |-> 0,
     bucket_labels |-> <<>>,
     histogram |-> <<>>,
     histogram_ranges |-> <<>>]

\* A reset that forgets to clear histogram_ranges.
HistogramColouringReset_keep_ranges(hc) ==
    [total_samples |-> 0,
     bucket_labels |-> <<>>,
     histogram |-> <<>>,
     histogram_ranges |-> hc.histogram_ranges]

\* HistogramColouring::reset(&mut self)
HistogramColouringReset(hc) ==
    [total_samples |-> 0,
     bucket_labels |-> <<>>,
     histogram |-> <<>>,
     histogram_ranges |-> <<>>]

\* A hash map with key k set to v (insert, or overwrite).
MapInsert(m, k, v) == [l \in (DOMAIN m) \cup {k} |-> IF l = k THEN v ELSE m[l]]

\* Sum of the values of a hash map.
RECURSIVE MapSum(_)
MapSum(m) ==
    IF DOMAIN m = {} THEN 0
    ELSE LET k == CHOOSE l \in DOMAIN m : TRUE
         IN  m[k] + MapSum([l \in (DOMAIN m) \ {k} |-> m[l]])

\* The elements of a vector.
Range(seq) == { seq[i] : i \in DOMAIN seq }

\* A fold step that counts the sample but not in total_samples.
FoldPixel_no_total(size, st, pixel) ==
    LET first == pixel.iteration_count \notin DOMAIN st.histogram
        old   == IF first THEN 0 ELSE st.histogram[pixel.iteration_count]
    IN  [st EXCEPT
            !.colour_ranges[GridIndex(size, pixel)].escaped = 1,
            !.bucket_labels = IF first THEN Append(@, pixel.iteration_count) ELSE @,
            !.histogram = MapInsert(@, pixel.iteration_count, old + 1)]

\* A fold step that pushes the bucket label for every sample.
FoldPixel_push_always(size, st, pixel) ==
    LET first == pixel.iteration_count \notin DOMAIN st.histogram
        old   == IF first THEN 0 ELSE st.histogram[pixel.iteration_count]
    IN  [st EXCEPT
            !.colour_ranges[GridIndex(size, pixel)].escaped = 1,
            !.bucket_labels = Append(@, pixel.iteration_count),
            !.histogram = MapInsert(@, pixel.iteration_count, old + 1),
            !.total_samples = @ + 1]

\* One iteration of `for pixel in newly_escaped_pixels`.
FoldPixel(size, st, pixel) ==
    LET first == pixel.iteration_count \notin DOMAIN st.histogram
        old   == IF first THEN 0 ELSE st.histogram[pixel.iteration_count]
    IN  [st EXCEPT
            !.colour_ranges[GridIndex(size, pixel)].escaped = 1,
            !.bucket_labels = IF first THEN Append(@, pixel.iteration_count) ELSE @,
            !.histogram = MapInsert(@, pixel.iteration_count, old + 1),
            !.total_samples = @ + 1]

\* `for pixel in newly_escaped_pixels { ... }`
RECURSIVE FoldNewlyEscaped(_, _, _)
FoldNewlyEscaped(size, st, pixels) ==
    IF pixels = <<>> THEN st
    ELSE FoldNewlyEscaped(size, FoldPixel(size, st, Head(pixels)), Tail(pixels))

\* v placed into an ascending vector.
RECURSIVE InsertSorted(_, _)
InsertSorted(v, seq) ==
    IF seq = <<>> THEN <<v>>
    ELSE IF v <= Head(seq) THEN <<v>> \o seq
    ELSE <<Head(seq)>> \o InsertSorted(v, Tail(seq))

\* A sort that leaves the vector as it is.
SortLabels_none(seq) == seq

\* self.bucket_labels.sort()
RECURSIVE SortLabels(_)
SortLabels(seq) ==
    IF seq = <<>> THEN <<>> ELSE InsertSorted(Head(seq), SortLabels(Tail(seq)))

\* A CDF loop that adds the bucket before it stores the range (mass <= label).
RECURSIVE BuildRanges_inclusive(_, _, _, _, _)
BuildRanges_inclusive(labels, acc, total, hist, ranges) ==
    IF labels = <<>> THEN ranges
    ELSE LET bucket_label == Head(labels)
         IN  BuildRanges_inclusive(Tail(labels), acc + hist[bucket_label], total, hist,
                 MapInsert(ranges, bucket_label,
                           F32Div(AsF32(acc + hist[bucket_label]), AsF32(total))))

\* `for bucket_label in &self.bucket_labels { insert(acc / total); acc += histogram[..] }`
RECURSIVE BuildRanges(_, _, _, _, _)
BuildRanges(labels, acc, total, hist, ranges) ==
    IF labels = <<>> THEN ranges
    ELSE LET bucket_label == Head(labels)
         IN  BuildRanges(Tail(labels), acc + hist[bucket_label], total, hist,
                 MapInsert(ranges, bucket_label, F32Div(AsF32(acc), AsF32(total))))

\* A recompute step that also puts the cells of live pixels back to the default.
RecomputeColours_clear_live(all, ranges, cr, cells) ==
    [i \in DOMAIN cr |->
        IF i \in cells /\ all[i].escaped = 1 /\ all[i].iteration_count \in DOMAIN ranges
        THEN [cr[i] EXCEPT !.value = ranges[all[i].iteration_count]]
        ELSE IF i \in cells /\ all[i].escaped # 1 THEN ColourRangeDefault
        ELSE cr[i]]

\* The recompute step without the panic: a missing range leaves the value alone.
RecomputeColours(all, ranges, cr, cells) ==
    [i \in DOMAIN cr |->
        IF i \in cells /\ all[i].escaped = 1 /\ all[i].iteration_count \in DOMAIN ranges
        THEN [cr[i] EXCEPT !.value = ranges[all[i].iteration_count]]
        ELSE cr[i]]

\* The cells whose lookup `histogram_ranges.get(&pixel.iteration_count)` fails.
LookupFailures(all, ranges) ==
    { i \in DOMAIN all :
        all[i].escaped = 1 /\ all[i].iteration_count \notin DOMAIN ranges }

\* An update that recomputes the value of the newly escaped cells only.
UpdatedCells_newly_only(size, all, pixels) ==
    { GridIndex(size, pixels[k]) : k \in DOMAIN pixels }

\* The cells `colour_ranges.par_iter_mut().enumerate()` visits: all of them.
UpdatedCells(size, all, pixels) == DOMAIN all

\* An update that starts the whole histogram afresh for every non-empty batch.
ClearedBeforeCheck_all(st, pixels) ==
    IF pixels = <<>> THEN st
    ELSE [st EXCEPT !.histogram_ranges = <<>>, !.histogram = <<>>,
                    !.bucket_labels = <<>>, !.total_samples = 0]

\* An update that clears histogram_ranges before it looks at the batch.
ClearedBeforeCheck_hoisted(st, pixels) == [st EXCEPT !.histogram_ranges = <<>>]

\* `if !newly_escaped_pixels.is_empty() { ...; self.histogram_ranges.clear(); ... }`
ClearedBeforeCheck(st, pixels) ==
    IF pixels = <<>> THEN st ELSE [st EXCEPT !.histogram_ranges = <<>>]

\* The recompute step `colour_ranges.par_iter_mut().enumerate().for_each(..)` on
\* the state s3 with the rebuilt ranges: the states it can end in.
RecomputeStep(size, s3, all, pixels) ==
    LET failing == LookupFailures(all, s3.histogram_ranges)
    IN  IF failing = {}
        THEN { [s3 EXCEPT !.colour_ranges =
                  RecomputeColours(all, s3.histogram_ranges, @,
                                   UpdatedCells(size, all, pixels))] }
        \* the parallel loop panics; any of the other cells may have been
        \* written by then
        ELSE { [s3 EXCEPT !.panicked = "lookup",
                          !.colour_ranges =
                              RecomputeColours(all, s3.histogram_ranges, @, w)] :
                 w \in SUBSET ((DOMAIN all) \ failing) }

\* The sort and the CDF loop on the state s1 the fold left.
RangesStep(s1) ==
    LET sorted == SortLabels(s1.bucket_labels)
    IN  [s1 EXCEPT !.bucket_labels = sorted,
                   !.histogram_ranges =
                       BuildRanges(sorted, 0, s1.total_samples, s1.histogram, @)]

\* An index that is never out of bounds.
IndexFailures_none(size, cr, pixels) == {}

\* The positions of the slice whose `colour_ranges[y * width + x]` is out of bounds.
IndexFailures(size, cr, pixels) ==
    { k \in DOMAIN pixels : GridIndex(size, pixels[k]) \notin DOMAIN cr }

\* The two debug assertions between the fold and the sort:
\* debug_assert_eq!(total_samples, sum of histogram) and
\* debug_assert!(bucket_labels has no duplicates).
DebugAssertionsHold(s1) ==
    /\ s1.total_samples = MapSum(s1.histogram)
    /\ Len(s1.bucket_labels) = Cardinality(Range(s1.bucket_labels))

\* HistogramColouring::update_colours(&mut self, screen_size, all_pixels,
\* newly_escaped_pixels, colour_ranges): the set of states the call can end in.
\* st holds the four fields of self, colour_ranges and panicked.
update_colours(size, st, all, pixels) ==
    IF pixels = <<>> THEN { ClearedBeforeCheck(st, pixels) }
    ELSE IF IndexFailures(size, st.colour_ranges, pixels) # {}
    THEN \* `colour_ranges[..]` panics at the first index out of bounds; the
         \* pixels ahead of it have been folded
         LET k == CHOOSE j \in IndexFailures(size, st.colour_ranges, pixels) :
                     \A l \in IndexFailures(size, st.colour_ranges, pixels) : j <= l
         IN  { [FoldNewlyEscaped(size, ClearedBeforeCheck(st, pixels),
                                 SubSeq(pixels, 1, k - 1))
                   EXCEPT !.panicked = "index"] }
    ELSE UNION {
           UNION { RecomputeStep(size, s3, all, pixels) : s3 \in { RangesStep(s1) } }
             \* a debug build panics at a failed assertion, a release build goes on
             \cup (IF DebugAssertionsHold(s1) THEN {}
                   ELSE { [s1 EXCEPT !.panicked = "debug_assert"] }) :
           s1 \in { FoldNewlyEscaped(size, ClearedBeforeCheck(st, pixels), pixels) } }

\* The fields of self, colour_ranges and panicked as one record.
ColouringState ==
    [total_samples |-> total_samples,
     bucket_labels |-> bucket_labels,
     histogram |-> histogram,
     histogram_ranges |-> histogram_ranges,
     colour_ranges |-> colour_ranges,
     panicked |-> panicked]

\* The variables take the fields of st.
SetColouringState(st) ==
    /\ total_samples' = st.total_samples
    /\ bucket_labels' = st.bucket_labels
    /\ histogram' = st.histogram
    /\ histogram_ranges' = st.histogram_ranges
    /\ colour_ranges' = st.colour_ranges
    /\ panicked' = st.panicked

\* The variables right after HistogramColouring::new(), with default colour ranges.
ColouringInit(size) ==
    /\ screen_size = size
    /\ folded = [c \in IterationCounts |-> 0]
    /\ updates = 0
    /\ total_samples = HistogramColouringNew.total_samples
    /\ bucket_labels = HistogramColouringNew.bucket_labels
    /\ histogram = HistogramColouringNew.histogram
    /\ histogram_ranges = HistogramColouringNew.histogram_ranges
    /\ colour_ranges = [i \in Cells(size) |-> ColourRangeDefault]
    /\ all_pixels = [i \in Cells(size) |-> FreshPixel(size, i)]
    /\ last_op = "new"
    /\ panicked = "none"
    /\ was_reset = FALSE

(***************************************************************************)
(* The dispatch scenario: one call of mandelbrot_dispatch_size, then the   *)
(* grid it describes.                                                      *)
(***************************************************************************)

DispatchInit ==
    /\ dpc = "start"
    /\ total_work \in TotalWorkInputs
    /\ shape = <<0, 0, 0>>
    /\ inv_a = <<0, 0>>
    /\ inv_b = <<0, 0>>
    /\ item = 0
    /\ ColouringInit(Size(1, 1))
    /\ work_list = <<>>
    /\ ExtrasIdle

\* The frame calls mandelbrot_dispatch_size(total_work).
Plan ==
    /\ dpc = "start"
    /\ shape' = mandelbrot_dispatch_size(total_work)
    /\ dpc' = "planned"
    /\ UNCHANGED <<total_work, inv_a, inv_b, item>>
    /\ UNCHANGED cvars
    /\ UNCHANGED xvars

\* The device runs the grid: two of its invocations.
Invoke ==
    /\ dpc = "planned"
    /\ \E a \in Invocations(shape), b \in Invocations(shape) :
          /\ inv_a' = a
          /\ inv_b' = b
    /\ dpc' = "invoked"
    /\ UNCHANGED <<total_work, shape, item>>
    /\ UNCHANGED cvars
    /\ UNCHANGED xvars

\* One live work item waiting for an invocation.
Cover ==
    /\ dpc = "planned"
    /\ \E i \in Items(total_work) : item' = i
    /\ dpc' = "covered"
    /\ UNCHANGED <<total_work, shape, inv_a, inv_b>>
    /\ UNCHANGED cvars
    /\ UNCHANGED xvars

DispatchNext == Plan \/ Invoke \/ Cover

SpecDispatch == DispatchInit /\ [][DispatchNext]_vars

(***************************************************************************)
(* A caller of HistogramColouring: any sequence of update_colours and      *)
(* reset calls on one colouring, with any point store.                     *)
(***************************************************************************)

\* Largest newly_escaped_pixels slice of one call.
MaxBatch == 2

\* The escaped pixels a caller can report: `debug_assert!(pixel.escaped == 1)`,
\* at a position inside the grid.
EscapedPixels(size) ==
    { Pixel(i % size.width, i \div size.width, 1, c) :
        i \in Cells(size), c \in IterationCounts }

\* The newly_escaped_pixels slices of a call.
Batches(size) == UNION { [1 .. n -> EscapedPixels(size)] : n \in 0 .. MaxBatch }

\* folded with the samples of a slice counted in.
RECURSIVE CountIn(_, _)
CountIn(f, pixels) ==
    IF pixels = <<>> THEN f
    ELSE CountIn([f EXCEPT ![Head(pixels).iteration_count] = @ + 1], Tail(pixels))

\* The point store with the escaped records written at their grid index.
RECURSIVE StoreEscaped(_, _, _)
StoreEscaped(size, all, escaped) ==
    IF escaped = <<>> THEN all
    ELSE StoreEscaped(size,
                      [all EXCEPT ![GridIndex(size, Head(escaped))] = Head(escaped)],
                      Tail(escaped))

DispatchIdle ==
    /\ dpc = "off"
    /\ total_work = 0
    /\ shape = <<0, 0, 0>>
    /\ inv_a = <<0, 0>>
    /\ inv_b = <<0, 0>>
    /\ item = 0

ColourInit ==
    /\ DispatchIdle
    /\ \E size \in {Size(2, 1), Size(1, 2)} : ColouringInit(size)
    /\ work_list = <<>>
    /\ ExtrasIdle

\* Every point store of the grid: each cell fresh or escaped with some count.
PointStores(size) ==
    { [i \in Cells(size) |->
          IF f[i] = 0 THEN FreshPixel(size, i)
          ELSE Pixel(i % size.width, i \div size.width, 1, f[i])] :
        f \in [Cells(size) -> IterationCounts \cup {0}] }

\* colouring.update_colours(size, &all_pixels, &newly_escaped_pixels, &mut colour_ranges)
\* with a non-empty slice, whose points the caller has written to its point store.
UpdateColours ==
    /\ panicked = "none"
    /\ \E pixels \in Batches(screen_size) \ {<<>>} :
          /\ total_samples + Len(pixels) <= MaxSamples
          /\ folded' = CountIn(folded, pixels)
          /\ updates' = updates + 1
          /\ last_op' = "update"
          /\ \E store \in { StoreEscaped(screen_size, all_pixels, pixels) } :
                /\ all_pixels' = store
                /\ \E st \in update_colours(screen_size, ColouringState, store, pixels) :
                      SetColouringState(st)
    /\ UNCHANGED <<work_list, screen_size, was_reset>>
    /\ UNCHANGED dvars
    /\ UNCHANGED xvars

\* colouring.update_colours(size, &all, &[], &mut colour_ranges): nothing escaped;
\* the slice all is any point store at all.
UpdateColoursEmpty ==
    /\ panicked = "none"
    /\ last_op' = "update_empty"
    /\ \E all \in PointStores(screen_size) :
          \E st \in update_colours(screen_size, ColouringState, all, <<>>) :
             SetColouringState(st)
    /\ UNCHANGED <<all_pixels, folded, updates, work_list, screen_size, was_reset>>
    /\ UNCHANGED dvars
    /\ UNCHANGED xvars

\* colouring.reset(), with the caller's point store rebuilt
Reset ==
    /\ panicked = "none"
    /\ was_reset' = TRUE
    /\ LET hc == HistogramColouringReset(ColouringState)
       IN  /\ total_samples' = hc.total_samples
           /\ bucket_labels' = hc.bucket_labels
           /\ histogram' = hc.histogram
           /\ histogram_ranges' = hc.histogram_ranges
    /\ folded' = [c \in IterationCounts |-> 0]
    /\ updates' = 0
    /\ all_pixels' = [i \in Cells(screen_size) |-> FreshPixel(screen_size, i)]
    /\ last_op' = "reset"
    /\ UNCHANGED <<colour_ranges, work_list, screen_size, panicked>>
    /\ UNCHANGED dvars
    /\ UNCHANGED xvars

ColourNext == UpdateColours \/ UpdateColoursEmpty \/ Reset

SpecColour == ColourInit /\ [][ColourNext]_vars

(***************************************************************************)
(* The frame loop: each frame the device returns one record per work list  *)
(* entry; the records are partitioned into the newly escaped batch and the *)
(* next work list, the point store takes the escaped ones, and the         *)
(* colouring folds them in.  A pan, zoom or resize event resets the epoch.    *)
(***************************************************************************)

\* The work list of a fresh epoch: every grid cell, zeroed.
FullWorkList(size) == [k \in 1 .. GridArea(size) |-> FreshPixel(size, k - 1)]

\* The iteration counts of the end-to-end scenario.
ScenarioCounts == {3, 5}

\* What the device can return for a submitted work list: per record, in the
\* submitted order, either still live or escaped with some iteration count.
DeviceOutcomes ==
    { [escaped |-> 0, iteration_count |-> 0] }
        \cup { [escaped |-> 1, iteration_count |-> c] : c \in ScenarioCounts }
Readbacks(submitted) == [DOMAIN submitted -> DeviceOutcomes]

\* The record returned for work list entry k.
ReadbackPixel(submitted, r, k) ==
    Pixel(submitted[k].x, submitted[k].y, r[k].escaped, r[k].iteration_count)

\* The records of a readback with escaped == e, in readback order.
RECURSIVE Partition(_, _)
Partition(records, e) ==
    IF records = <<>> THEN <<>>
    ELSE IF Head(records).escaped = e
         THEN <<Head(records)>> \o Partition(Tail(records), e)
         ELSE Partition(Tail(records), e)

Init ==
    /\ DispatchIdle
    /\ ColouringInit(Size(2, 2))
    /\ work_list = FullWorkList(Size(2, 2))
    /\ ExtrasIdle

\* One frame: dispatch over the work list, readback, partition, colour update.
Frame ==
    /\ panicked = "none"
    /\ \E r \in Readbacks(work_list) :
          \E records \in { [k \in DOMAIN work_list |-> ReadbackPixel(work_list, r, k)] } :
             \E escaped \in { Partition(records, 1) }, next \in { Partition(records, 0) } :
                \E store \in { StoreEscaped(screen_size, all_pixels, escaped) } :
                   /\ work_list' = next
                   /\ all_pixels' = store
                   /\ folded' = CountIn(folded, escaped)
                   /\ updates' = IF escaped = <<>> THEN updates ELSE updates + 1
                   /\ last_op' = IF escaped = <<>> THEN "update_empty" ELSE "update"
                   /\ \E st \in update_colours(screen_size, ColouringState, store, escaped) :
                         SetColouringState(st)
    /\ UNCHANGED <<screen_size, was_reset>>
    /\ UNCHANGED dvars
    /\ UNCHANGED xvars

\* A pan, zoom or resize event: the work list and the point store are rebuilt
\* and the histogram state is cleared.
ResetEvent ==
    /\ panicked = "none"
    /\ was_reset' = TRUE
    /\ work_list' = FullWorkList(screen_size)
    /\ all_pixels' = [i \in Cells(screen_size) |-> FreshPixel(screen_size, i)]
    /\ LET hc == HistogramColouringReset(ColouringState)
       IN  /\ total_samples' = hc.total_samples
           /\ bucket_labels' = hc.bucket_labels
           /\ histogram' = hc.histogram
           /\ histogram_ranges' = hc.histogram_ranges
    /\ folded' = [c \in IterationCounts |-> 0]
    /\ updates' = 0
    /\ last_op' = "reset"
    /\ UNCHANGED <<colour_ranges, screen_size, panicked>>
    /\ UNCHANGED dvars
    /\ UNCHANGED xvars

Next == Frame \/ ResetEvent

Spec == Init /\ [][Next]_vars

(***************************************************************************)
(* An arbitrary caller of HistogramColouring: update_colours with any      *)
(* point store and any slice, also one whose store holds an escaped pixel  *)
(* that was never passed, or whose slice holds a pixel outside the grid.   *)
(***************************************************************************)

\* Pixels outside the 1 x 2 grid: one whose index still falls inside
\* colour_ranges, one whose index does not.
StrayPixels == { Pixel(1, 0, 1, 3), Pixel(0, 2, 1, 3) }

\* The slices of an arbitrary caller: one pixel of the grid, escaped with one
\* of the scenario's counts, or a stray pixel, alone or behind one of the grid.
AnyBatches(size) ==
    LET inside == { p \in EscapedPixels(size) : p.iteration_count \in ScenarioCounts }
    IN  { <<p>> : p \in inside \cup StrayPixels }
            \cup { <<p, q>> : p \in inside, q \in StrayPixels }

\* The point stores of an arbitrary caller: each cell fresh or escaped.
AnyPointStores(size) ==
    { [i \in Cells(size) |->
          IF f[i] = 0 THEN FreshPixel(size, i)
          ELSE Pixel(i % size.width, i \div size.width, 1, f[i])] :
        f \in [Cells(size) -> ScenarioCounts \cup {0}] }

\* folded with the samples of the pixels update_colours got to before it stopped.
FoldedBy(size, f, cr, pixels) ==
    LET bad == IndexFailures(size, cr, pixels)
    IN  IF bad = {} THEN CountIn(f, pixels)
        ELSE CountIn(f, SubSeq(pixels, 1,
                 (CHOOSE j \in bad : \A l \in bad : j <= l) - 1))

AnyInit ==
    /\ DispatchIdle
    /\ ColouringInit(Size(1, 2))
    /\ work_list = <<>>
    /\ ExtrasIdle

\* colouring.update_colours(size, &all, &pixels, &mut colour_ranges), non-empty slice
UpdateColoursAny ==
    /\ panicked = "none"
    /\ \E pixels \in AnyBatches(screen_size), all \in AnyPointStores(screen_size) :
          /\ total_samples + Len(pixels) <= MaxSamples
          /\ passed' = passed \cup Range(pixels)
          /\ all_pixels' = all
          /\ folded' = FoldedBy(screen_size, folded, colour_ranges, pixels)
          /\ updates' = updates + 1
          /\ last_op' = "update"
          /\ \E st \in update_colours(screen_size, ColouringState, all, pixels) :
                SetColouringState(st)
    /\ UNCHANGED <<work_list, screen_size, was_reset>>
    /\ UNCHANGED <<wide_total_work, wide_shape>>
    /\ UNCHANGED <<dvars, staging, mvars, svars>>

\* colouring.update_colours(size, &all, &[], &mut colour_ranges)
UpdateColoursAnyEmpty ==
    /\ panicked = "none"
    /\ \E all \in AnyPointStores(screen_size) :
          \E st \in update_colours(screen_size, ColouringState, all, <<>>) :
             SetColouringState(st)
    /\ last_op' = "update_empty"
    /\ UNCHANGED <<passed, all_pixels, folded, updates, work_list, screen_size, was_reset>>
    /\ UNCHANGED <<wide_total_work, wide_shape>>
    /\ UNCHANGED <<dvars, staging, mvars, svars>>

\* colouring.reset(), once in a run
ResetAny ==
    /\ panicked = "none"
    /\ ~was_reset
    /\ was_reset' = TRUE
    /\ LET hc == HistogramColouringReset(ColouringState)
       IN  /\ total_samples' = hc.total_samples
           /\ bucket_labels' = hc.bucket_labels
           /\ histogram' = hc.histogram
           /\ histogram_ranges' = hc.histogram_ranges
    /\ passed' = {}
    /\ folded' = [c \in IterationCounts |-> 0]
    /\ updates' = 0
    /\ last_op' = "reset"
    /\ UNCHANGED <<colour_ranges, all_pixels, work_list, screen_size, panicked>>
    /\ UNCHANGED <<wide_total_work, wide_shape>>
    /\ UNCHANGED <<dvars, staging, mvars, svars>>

AnyNext == UpdateColoursAny \/ UpdateColoursAnyEmpty \/ ResetAny

SpecColourAny == AnyInit /\ [][AnyNext]_vars

(***************************************************************************)
(* The frame loop with its readback: the device's records are copied into  *)
(* the first len(WorkList) slots of a staging buffer sized to the full     *)
(* grid, the staging region is mapped, and the partitioner walks the       *)
(* records in order.  A failed map and a malformed record are fatal.       *)
(***************************************************************************)

\* The staging buffer as allocated: one zeroed record per grid cell.
StagingInit(size) == [k \in 1 .. GridArea(size) |-> Pixel(0, 0, 0, 0)]

\* The records the device can write for a submitted point: still live, escaped
\* with some iteration count, or malformed (a flag outside {0, 1}, a position
\* outside the grid).
DeviceRecords(size, point) ==
    { Pixel(point.x, point.y, 0, 0) }
        \cup { Pixel(point.x, point.y, 1, c) : c \in ScenarioCounts }
        \cup { Pixel(point.x, point.y, 2, 0), Pixel(size.width, point.y, 1, 3) }

\* The output of one dispatch: one record per work list entry, in work list order.
RECURSIVE DeviceReadbacks(_, _)
DeviceReadbacks(size, submitted) ==
    IF submitted = <<>> THEN { <<>> }
    ELSE { <<r>> \o rest : r \in DeviceRecords(size, Head(submitted)),
                           rest \in DeviceReadbacks(size, Tail(submitted)) }

\* copy_to_staging: the records land in the first slots, the rest keeps what
\* earlier frames left there.
CopyToStaging(stage, records) ==
    [k \in DOMAIN stage |-> IF k <= Len(records) THEN records[k] ELSE stage[k]]

\* A partitioner that walks the whole staging buffer.
Consumed_whole(stage, n) == stage

\* The records the partitioner reads: the first n of the staging buffer.
Consumed(stage, n) == SubSeq(stage, 1, n)

\* A check that accepts every record.
ValidRecord_lax(size, r) == TRUE

\* escaped in {0, 1} and (x, y) inside the grid.
ValidRecord(size, r) ==
    /\ r.escaped \in {0, 1}
    /\ r.x < size.width
    /\ r.y < size.height

\* The partitioner's state before the first record.
PartitionStart(all) == [all |-> all, escaped |-> <<>>, next |-> <<>>, fatal |-> FALSE]

\* A routing step that also keeps an escaped record in the next work list.
RouteRecord_requeue(size, acc, r) ==
    IF r.escaped = 1
    THEN [acc EXCEPT !.all[GridIndex(size, r)] = r,
                     !.escaped = Append(@, r),
                     !.next = Append(@, r)]
    ELSE [acc EXCEPT !.next = Append(@, r)]

\* One valid record routed: an escaped one is written to the point store at its
\* grid index and appended to newly_escaped, a live one is appended to the next
\* work list.
RouteRecord(size, acc, r) ==
    IF r.escaped = 1
    THEN [acc EXCEPT !.all[GridIndex(size, r)] = r,
                     !.escaped = Append(@, r)]
    ELSE [acc EXCEPT !.next = Append(@, r)]

\* The partitioner: for each record in order, check it and route it; a
\* malformed record ends the walk.
RECURSIVE ConsumeRecords(_, _, _)
ConsumeRecords(size, acc, records) ==
    IF records = <<>> THEN acc
    ELSE IF ~ValidRecord(size, Head(records)) THEN [acc EXCEPT !.fatal = TRUE]
    ELSE ConsumeRecords(size, RouteRecord(size, acc, Head(records)), Tail(records))

\* The work list of the next frame: the records that stayed live.
NextWorkList(size, acc) == acc.next

FrameLoopInit ==
    /\ DispatchIdle
    /\ \E size \in {Size(3, 1), Size(1, 3)} :
          /\ ColouringInit(size)
          /\ work_list = FullWorkList(size)
          /\ staging = StagingInit(size)
    /\ MainIdle
    /\ SyncIdle
    /\ WideIdle

\* One frame: dispatch over the work list, copy to staging, map, partition,
\* colour update.
ReadbackFrame ==
    /\ panicked = "none"
    /\ \E records \in DeviceReadbacks(screen_size, work_list), mapped \in BOOLEAN :
          \E copied \in { CopyToStaging(staging, records) } :
             \E acc \in { ConsumeRecords(screen_size, PartitionStart(all_pixels),
                                         Consumed(copied, Len(work_list))) } :
                /\ staging' = copied
                /\ IF ~mapped
                   THEN \* the map callback reports failure before anything is read
                        /\ panicked' = "map_failed"
                        /\ last_op' = "fatal"
                        /\ UNCHANGED <<hvars, colour_ranges, all_pixels, work_list,
                                       folded, updates>>
                   ELSE IF acc.fatal
                   THEN \* the walk stops at the malformed record
                        /\ panicked' = "bad_record"
                        /\ last_op' = "fatal"
                        /\ all_pixels' = acc.all
                        /\ UNCHANGED <<hvars, colour_ranges, work_list, folded, updates>>
                   ELSE /\ work_list' = NextWorkList(screen_size, acc)
                        /\ all_pixels' = acc.all
                        /\ folded' = CountIn(folded, acc.escaped)
                        /\ updates' = IF acc.escaped = <<>> THEN updates ELSE updates + 1
                        /\ last_op' = IF acc.escaped = <<>> THEN "update_empty" ELSE "update"
                        /\ \E st \in update_colours(screen_size, ColouringState,
                                                    acc.all, acc.escaped) :
                              SetColouringState(st)
    /\ UNCHANGED <<screen_size, was_reset>>
    /\ UNCHANGED dvars
    /\ UNCHANGED mvars
    /\ UNCHANGED svars
    /\ UNCHANGED wvars

\* A pan, zoom or resize event: work list and point store rebuilt, histogram
\* state cleared; the staging buffer keeps its records.
LoopReset ==
    /\ panicked = "none"
    /\ was_reset' = TRUE
    /\ work_list' = FullWorkList(screen_size)
    /\ all_pixels' = [i \in Cells(screen_size) |-> FreshPixel(screen_size, i)]
    /\ LET hc == HistogramColouringReset(ColouringState)
       IN  /\ total_samples' = hc.total_samples
           /\ bucket_labels' = hc.bucket_labels
           /\ histogram' = hc.histogram
           /\ histogram_ranges' = hc.histogram_ranges
    /\ folded' = [c \in IterationCounts |-> 0]
    /\ updates' = 0
    /\ last_op' = "reset"
    /\ UNCHANGED <<colour_ranges, screen_size, panicked, staging>>
    /\ UNCHANGED dvars
    /\ UNCHANGED mvars
    /\ UNCHANGED svars
    /\ UNCHANGED wvars

FrameLoopNext == ReadbackFrame \/ LoopReset

SpecFrameLoop == FrameLoopInit /\ [][FrameLoopNext]_vars

(***************************************************************************)
(* main.rs: the event loop.  Each per-pixel buffer is kept as one value    *)
(* per cell: 0 for the zeroed IterationCount / Complex the handlers write, *)
(* 1 for a value left by the device's recurrence.  zoom and origin are the *)
(* exact ratios <<numerator, denominator>> of the f32 arithmetic.          *)
(***************************************************************************)

\* Bound: the pan, zoom and resize events of a run.
MaxEvents == 3

\* Bound: current_iteration_count is not taken beyond this.
MaxFrames == 2

\* The sizes the window is created with or resized to.
WindowSizes == {Size(1, 2), Size(2, 2), Size(1, 1)}

\* The positions CursorMoved reports.
CursorPositions == {<<0, 0>>, <<1, 2>>}

\* MouseScrollDelta: LineDelta(_, delta) with one notch either way, or PixelDelta.
ScrollDeltas == {<<"LineDelta", 1>>, <<"LineDelta", -1>>, <<"PixelDelta", 1>>}

Abs(n) == IF n < 0 THEN -n ELSE n

\* n / d in lowest terms with a positive denominator.
Rat(n, d) ==
    LET g == Gcd(Abs(n), Abs(d))
        s == IF d < 0 THEN -1 ELSE 1
    IN  <<(s * n) \div g, (s * d) \div g>>

RatAdd(a, b) == Rat(a[1] * b[2] + b[1] * a[2], a[2] * b[2])

RatSub(a, b) == Rat(a[1] * b[2] - b[1] * a[2], a[2] * b[2])

RatMul(a, b) == Rat(a[1] * b[1], a[2] * b[2])

RatDiv(a, b) == Rat(a[1] * b[2], a[2] * b[1])

\* std::iter::repeat(zero).take((size.width * size.height) as usize)
Zeroed(size) == [k \in 1 .. GridArea(size) |-> 0]

\* queue.write_buffer(buffer, 0, data) fails when data overruns the buffer.
WriteFits(buffer, size) == GridArea(size) <= Len(buffer)

WriteZeroed_in_place(buffer, size) == buffer

\* queue.write_buffer(buffer, 0, zeroes of size.width * size.height)
WriteZeroed(buffer, size) ==
    [k \in 1 .. Len(buffer) |-> IF k <= GridArea(size) THEN 0 ELSE buffer[k]]

\* The click's new origin: origin + (2 * zoom_inv * cursor / size - zoom_inv)
\* on each axis, with zoom_inv = 2.0 / zoom.
ClickOrigin(o, z, cursor, size) ==
    LET zoom_inv == RatDiv(<<2, 1>>, z)
        shift(c, extent) ==
            RatSub(RatMul(RatMul(<<2, 1>>, zoom_inv), Rat(c, extent)), zoom_inv)
    IN  <<RatAdd(o[1], shift(cursor[1], size.width)),
          RatAdd(o[2], shift(cursor[2], size.height))>>

\* *zoom += *zoom * 0.1 * delta
ScrollZoom(z, delta) == RatAdd(z, RatMul(RatMul(z, <<1, 10>>), <<delta, 1>>))

\* The cells the invocations of dispatch_workgroups(width, height, 1) address
\* in a grid: y * grid.width + x, counted from 1.
DispatchedCells(dispatch, grid) ==
    { y * grid.width + x + 1 :
        x \in 0 .. dispatch.width - 1, y \in 0 .. dispatch.height - 1 }

\* The output buffer after the device's pass: every addressed cell holds an
\* iterated value; a write past the end is discarded or lands on the last cell.
DeviceWrites(buffer, cells, oob) ==
    [k \in 1 .. Len(buffer) |->
        IF \/ k \in cells
           \/ (oob = "clamp" /\ k = Len(buffer) /\ \E c \in cells : c > Len(buffer))
        THEN 1 ELSE buffer[k]]

\* A swap that copies the output binding over the input binding.
DoubleBufferedSwap_copy(pair) == [input |-> pair.output, output |-> pair.output]

\* DoubleBuffered::swap, and the std::mem::swap of the two bindings in main.rs
DoubleBufferedSwap(pair) == [input |-> pair.output, output |-> pair.input]

\* device.create_buffer four times: buffers that did not exist before,
\* numbered after the ones created so far.
CreatedBuffers(handles) ==
    LET used == {handles.starting_values.input, handles.starting_values.output,
                 handles.iteration_counts.input, handles.iteration_counts.output}
        last == CHOOSE n \in used : \A k \in used : k <= n
    IN  [starting_values |-> [input |-> last + 1, output |-> last + 2],
         iteration_counts |-> [input |-> last + 3, output |-> last + 4]]

MainInit ==
    /\ DispatchIdle
    /\ ColouringInit(Size(1, 1))
    /\ work_list = <<>>
    /\ staging = <<>>
    /\ \E size \in WindowSizes :
          /\ window_size = size
          /\ grid_size = size
          /\ iteration_counts_in_buffer = Zeroed(size)
          /\ iteration_counts_out_buffer = Zeroed(size)
          /\ starting_values_in_buffer = Zeroed(size)
          /\ starting_values_out_buffer = Zeroed(size)
    /\ zoom = <<1, 1>>
    /\ origin = <<<<0, 1>>, <<0, 1>>>>
    /\ cursor_position = <<0, 0>>
    /\ current_iteration_count = 0
    /\ events_since = 0
    /\ resets_since = 0
    /\ handled = 0
    /\ last_event = "none"
    /\ crashed = "none"
    /\ buffer_handles = CreatedBuffers(NoHandles)
    /\ bound_buffers = Unbound
    /\ SyncIdle
    /\ WideIdle

\* The four queue.write_buffer calls of a pan or zoom, then
\* current_iteration_count = 0; the first write that does not fit ends the run.
ResetPerPixel ==
    IF WriteFits(starting_values_in_buffer, window_size)
    THEN /\ starting_values_in_buffer' = WriteZeroed(starting_values_in_buffer, window_size)
         /\ starting_values_out_buffer' = WriteZeroed(starting_values_out_buffer, window_size)
         /\ iteration_counts_in_buffer' = WriteZeroed(iteration_counts_in_buffer, window_size)
         /\ iteration_counts_out_buffer' = WriteZeroed(iteration_counts_out_buffer, window_size)
         /\ current_iteration_count' = 0
         /\ resets_since' = resets_since + 1
         /\ crashed' = crashed
    ELSE /\ crashed' = "write_overrun"
         /\ UNCHANGED bvars
         /\ UNCHANGED <<current_iteration_count, resets_since>>

\* WindowEvent::CursorMoved
CursorMoved ==
    /\ crashed = "none"
    /\ \E position \in CursorPositions : cursor_position' = position
    /\ last_event' = "cursor_moved"
    /\ UNCHANGED <<window_size, grid_size, zoom, origin, current_iteration_count,
                   events_since, resets_since, handled, crashed,
                   buffer_handles, bound_buffers>>
    /\ UNCHANGED bvars
    /\ UNCHANGED <<dvars, cvars, staging, svars, wvars>>

\* WindowEvent::MouseInput, left button pressed
MouseInput ==
    /\ crashed = "none"
    /\ handled < MaxEvents
    /\ origin' = ClickOrigin(origin, zoom, cursor_position, window_size)
    /\ ResetPerPixel
    /\ events_since' = events_since + 1
    /\ handled' = handled + 1
    /\ last_event' = "mouse_input"
    /\ UNCHANGED <<window_size, grid_size, zoom, cursor_position,
                   buffer_handles, bound_buffers>>
    /\ UNCHANGED <<dvars, cvars, staging, svars, wvars>>

\* WindowEvent::MouseWheel
MouseWheel ==
    /\ crashed = "none"
    /\ handled < MaxEvents
    /\ \E delta \in ScrollDeltas :
          IF delta[1] = "PixelDelta"
          THEN /\ crashed' = "pixel_delta"
               /\ UNCHANGED <<zoom, current_iteration_count, resets_since>>
               /\ UNCHANGED bvars
          ELSE /\ zoom' = ScrollZoom(zoom, delta[2])
               /\ ResetPerPixel
    /\ events_since' = events_since + 1
    /\ handled' = handled + 1
    /\ last_event' = "mouse_wheel"
    /\ UNCHANGED <<window_size, grid_size, origin, cursor_position,
                   buffer_handles, bound_buffers>>
    /\ UNCHANGED <<dvars, cvars, staging, svars, wvars>>

\* WindowEvent::Resized(size): the surface and screen_size_buffer take the new
\* size, the four buffers are destroyed and created anew; the closure's
\* captured size is a different binding and keeps its value.
Resized ==
    /\ crashed = "none"
    /\ handled < MaxEvents
    /\ \E size \in WindowSizes :
          /\ grid_size' = size
          /\ iteration_counts_in_buffer' = Zeroed(size)
          /\ iteration_counts_out_buffer' = Zeroed(size)
          /\ starting_values_in_buffer' = Zeroed(size)
          /\ starting_values_out_buffer' = Zeroed(size)
    /\ current_iteration_count' = 0
    /\ events_since' = 0
    /\ resets_since' = 0
    /\ handled' = handled + 1
    /\ last_event' = "resized"
    /\ buffer_handles' = CreatedBuffers(buffer_handles)
    /\ bound_buffers' = Unbound
    /\ UNCHANGED <<window_size, zoom, origin, cursor_position, crashed>>
    /\ UNCHANGED <<dvars, cvars, staging, svars, wvars>>

\* Event::RedrawRequested: dispatch_workgroups(size.width, size.height, 1)
\* with the captured size and the four buffers bound by compute_bind_group_2,
\* the device writes the output buffers, the buffers of each pair are
\* swapped, current_iteration_count += 1.
RedrawRequested ==
    /\ crashed = "none"
    /\ current_iteration_count < MaxFrames
    /\ \E oob \in {"discard", "clamp"} :
          LET cells == DispatchedCells(window_size, grid_size) IN
          /\ starting_values_in_buffer' = DeviceWrites(starting_values_out_buffer, cells, oob)
          /\ iteration_counts_in_buffer' = DeviceWrites(iteration_counts_out_buffer, cells, oob)
    /\ starting_values_out_buffer' = starting_values_in_buffer
    /\ iteration_counts_out_buffer' = iteration_counts_in_buffer
    /\ bound_buffers' = [valid |-> TRUE,
                         starting_values |-> buffer_handles.starting_values,
                         iteration_counts |-> buffer_handles.iteration_counts]
    /\ buffer_handles' =
          [starting_values |-> DoubleBufferedSwap(buffer_handles.starting_values),
           iteration_counts |-> DoubleBufferedSwap(buffer_handles.iteration_counts)]
    /\ current_iteration_count' = current_iteration_count + 1
    /\ events_since' = 0
    /\ resets_since' = 0
    /\ last_event' = "redraw_requested"
    /\ UNCHANGED <<window_size, grid_size, zoom, origin, cursor_position, handled, crashed>>
    /\ UNCHANGED <<dvars, cvars, staging, svars, wvars>>

MainNext == CursorMoved \/ MouseInput \/ MouseWheel \/ Resized \/ RedrawRequested

SpecMain == MainInit /\ [][MainNext]_vars

(***************************************************************************)
(* ReadbackSync: the frame thread submits dispatch and copy, requests the  *)
(* map, spawns the helper and waits on the condition variable; the helper  *)
(* polls the device, and a poll that finds the map ready runs the          *)
(* completion callback; the device queue runs dispatch, then copy.         *)
(***************************************************************************)

\* Bound: the frames of a run.
MaxSyncFrames == 3

\* A callback that runs as soon as the map has been requested.
MapReady_early(requested, queue) == requested

\* The map can complete: it was requested and the queue has finished the copy
\* into the staging region.
MapReady(requested, queue) == requested /\ queue = "done"

\* A callback that touches the flag without taking the mutex.
CallbackMayRun_unlocked(holder) == TRUE

\* The callback takes the mutex before it flips the flag.
CallbackMayRun(holder) == holder = "free"

SyncInit ==
    /\ DispatchIdle
    /\ ColouringInit(Size(1, 1))
    /\ work_list = <<>>
    /\ staging = <<>>
    /\ MainIdle
    /\ SyncIdle
    /\ WideIdle

\* (1) the frame submits the dispatch and the copy into staging.
Submit ==
    /\ fpc = "idle"
    /\ sync_frame < MaxSyncFrames
    /\ sync_frame' = sync_frame + 1
    /\ device' = "dispatch"
    /\ flag' = FALSE
    /\ seen' = FALSE
    /\ waited' = FALSE
    /\ fpc' = "submitted"
    /\ UNCHANGED <<hpc, mutex, map_requested, output_bytes, staging_bytes, read_bytes>>
    /\ UNCHANGED <<spawned, alive>>
    /\ UNCHANGED <<dvars, cvars, staging, mvars, wvars>>

\* (2) map_async on the staging region, the callback registered.
MapAsync ==
    /\ fpc = "submitted"
    /\ map_requested' = TRUE
    /\ fpc' = "requested"
    /\ UNCHANGED <<hpc, mutex, flag, seen, waited, device, sync_frame,
                   output_bytes, staging_bytes, read_bytes>>
    /\ UNCHANGED <<spawned, alive>>
    /\ UNCHANGED <<dvars, cvars, staging, mvars, wvars>>

\* (4) the helper task of this frame is spawned.
SpawnHelper ==
    /\ fpc = "requested"
    /\ hpc' = "polling"
    /\ spawned' = spawned + 1
    /\ alive' = alive + 1
    /\ fpc' = "lock"
    /\ UNCHANGED <<mutex, flag, seen, waited, device, map_requested, sync_frame,
                   output_bytes, staging_bytes, read_bytes>>
    /\ UNCHANGED <<dvars, cvars, staging, mvars, wvars>>

\* (5) the frame takes the mutex, on entry and after every wake-up.
FrameLock ==
    /\ fpc \in {"lock", "woken"}
    /\ mutex = "free"
    /\ mutex' = "frame"
    /\ fpc' = "check"
    /\ UNCHANGED <<hpc, flag, seen, waited, device, map_requested, sync_frame,
                   output_bytes, staging_bytes, read_bytes>>
    /\ UNCHANGED <<spawned, alive>>
    /\ UNCHANGED <<dvars, cvars, staging, mvars, wvars>>

\* ... reads the flag ...
FrameCheck ==
    /\ fpc = "check"
    /\ seen' = flag
    /\ fpc' = "decide"
    /\ UNCHANGED <<hpc, mutex, flag, waited, device, map_requested, sync_frame,
                   output_bytes, staging_bytes, read_bytes>>
    /\ UNCHANGED <<spawned, alive>>
    /\ UNCHANGED <<dvars, cvars, staging, mvars, wvars>>

\* ... and goes on if it was set, or waits: the condition variable releases
\* the mutex and puts the thread to sleep in one step.
FrameWait ==
    /\ fpc = "decide"
    /\ mutex' = "free"
    /\ fpc' = IF seen THEN "read" ELSE "waiting"
    /\ waited' = (waited \/ ~seen)
    /\ UNCHANGED <<hpc, flag, seen, device, map_requested, sync_frame,
                   output_bytes, staging_bytes, read_bytes>>
    /\ UNCHANGED <<spawned, alive>>
    /\ UNCHANGED <<dvars, cvars, staging, mvars, wvars>>

\* A condition variable may wake its waiter without a signal.
SpuriousWake ==
    /\ fpc = "waiting"
    /\ fpc' = "woken"
    /\ UNCHANGED <<hpc, mutex, flag, seen, waited, device, map_requested, sync_frame,
                   output_bytes, staging_bytes, read_bytes>>
    /\ UNCHANGED <<spawned, alive>>
    /\ UNCHANGED <<dvars, cvars, staging, mvars, wvars>>

\* The frame reads through the mapped view.
ReadMapped ==
    /\ fpc = "read"
    /\ read_bytes' = staging_bytes
    /\ fpc' = "unmap"
    /\ UNCHANGED <<hpc, mutex, flag, seen, waited, device, map_requested, sync_frame,
                   output_bytes, staging_bytes>>
    /\ UNCHANGED <<spawned, alive>>
    /\ UNCHANGED <<dvars, cvars, staging, mvars, wvars>>

\* The frame unmaps the staging region before the next frame's copy.
Unmap ==
    /\ fpc = "unmap"
    /\ map_requested' = FALSE
    /\ fpc' = "idle"
    /\ UNCHANGED <<hpc, mutex, flag, seen, waited, device, sync_frame,
                   output_bytes, staging_bytes, read_bytes>>
    /\ UNCHANGED <<spawned, alive>>
    /\ UNCHANGED <<dvars, cvars, staging, mvars, wvars>>

\* (4) a poll of the helper that finds the map ready invokes the completion
\* callback; polling has then reported completion.  A poll that finds nothing
\* ready changes nothing.
PollCompletes ==
    /\ hpc = "polling"
    /\ MapReady(map_requested, device)
    /\ hpc' = "callback"
    /\ UNCHANGED <<fpc, mutex, flag, seen, waited, device, map_requested, sync_frame,
                   output_bytes, staging_bytes, read_bytes>>
    /\ UNCHANGED <<spawned, alive>>
    /\ UNCHANGED <<dvars, cvars, staging, mvars, wvars>>

\* (3) the callback takes the mutex ...
CallbackLock ==
    /\ hpc = "callback"
    /\ CallbackMayRun(mutex)
    /\ mutex' = IF mutex = "free" THEN "callback" ELSE mutex
    /\ hpc' = "signal"
    /\ UNCHANGED <<fpc, flag, seen, waited, device, map_requested, sync_frame,
                   output_bytes, staging_bytes, read_bytes>>
    /\ UNCHANGED <<spawned, alive>>
    /\ UNCHANGED <<dvars, cvars, staging, mvars, wvars>>

\* ... flips the flag, signals the condition variable, which wakes the frame
\* if it sleeps, and releases the mutex; the poll reports completion and the
\* helper's loop is over.
CallbackSignal ==
    /\ hpc = "signal"
    /\ flag' = TRUE
    /\ fpc' = IF fpc = "waiting" THEN "woken" ELSE fpc
    /\ mutex' = IF mutex = "callback" THEN "free" ELSE mutex
    /\ hpc' = "done"
    /\ UNCHANGED <<seen, waited, device, map_requested, sync_frame,
                   output_bytes, staging_bytes, read_bytes>>
    /\ UNCHANGED <<spawned, alive>>
    /\ UNCHANGED <<dvars, cvars, staging, mvars, wvars>>

\* The device finishes the dispatch: the output buffer holds this frame's records.
DispatchFinishes ==
    /\ device = "dispatch"
    /\ output_bytes' = sync_frame
    /\ device' = "copy"
    /\ UNCHANGED <<fpc, hpc, mutex, flag, seen, waited, map_requested, sync_frame,
                   staging_bytes, read_bytes>>
    /\ UNCHANGED <<spawned, alive>>
    /\ UNCHANGED <<dvars, cvars, staging, mvars, wvars>>

\* The device finishes the copy: the staging region holds the output's bytes.
CopyFinishes ==
    /\ device = "copy"
    /\ staging_bytes' = output_bytes
    /\ device' = "done"
    /\ UNCHANGED <<fpc, hpc, mutex, flag, seen, waited, map_requested, sync_frame,
                   output_bytes, read_bytes>>
    /\ UNCHANGED <<spawned, alive>>
    /\ UNCHANGED <<dvars, cvars, staging, mvars, wvars>>

\* A helper that goes away whenever it likes, its poll loop over or not.
LoopsOver_any(latest, tasks) == tasks

\* The helper tasks whose poll loop is over: all that are alive but the
\* latest one while it polls or runs the callback.
LoopsOver(latest, tasks) ==
    IF latest \in {"polling", "callback", "signal"} THEN tasks - 1 ELSE tasks

\* A helper task whose loop is over terminates; nothing waits for it.
HelperExit ==
    /\ LoopsOver(hpc, alive) > 0
    /\ alive' = alive - 1
    /\ UNCHANGED <<fpc, hpc, mutex, flag, seen, waited, device, map_requested, sync_frame,
                   output_bytes, staging_bytes, read_bytes, spawned>>
    /\ UNCHANGED <<dvars, cvars, staging, mvars, wvars>>

HelperTask == PollCompletes \/ CallbackLock \/ CallbackSignal

FrameThread ==
    Submit \/ MapAsync \/ SpawnHelper \/ FrameLock \/ FrameCheck \/ FrameWait
        \/ ReadMapped \/ Unmap

SyncNext ==
    Submit \/ MapAsync \/ SpawnHelper \/ FrameLock \/ FrameCheck \/ FrameWait
        \/ SpuriousWake \/ ReadMapped \/ Unmap
        \/ PollCompletes \/ CallbackLock \/ CallbackSignal \/ HelperExit
        \/ DispatchFinishes \/ CopyFinishes

SpecSync == SyncInit /\ [][SyncNext]_vars

\* The frame thread and the helper task are threads of the operating system:
\* each takes its next step when it can, and a callback blocked on the mutex
\* gets it when the mutex keeps being released.  Nothing obliges the device to
\* finish, and nothing obliges a spurious wake-up to happen.
SpecSyncFair ==
    /\ SyncInit
    /\ [][SyncNext]_vars
    /\ WF_vars(FrameThread)
    /\ WF_vars(HelperTask)
    /\ SF_vars(CallbackLock)

(***************************************************************************)
(* mandelbrot_dispatch_size over the whole of usize.  total_work is a      *)
(* 64-bit usize, kept as four limbs of 16 bits, lowest first; the u32 x is *)
(* two limbs.  1024 * 64 is 2^16, one limb.                                *)
(***************************************************************************)

LimbBase == MANDELBROT_DISPATCH_SIZE_Y * MANDELBROT_WORKGROUP_SIZE_Y

\* The total_work values drawn: 0, 50_000_000 = 762 * 65536 + 61568, and
\* the values around the limits of 16, 32 and 48 bits of the quotient.
WideTotalWorkInputs ==
    { <<l0, l1, l2, l3>> :
        l0 \in {0, 61568, LimbBase - 1},
        l1 \in {0, 1, 762, LimbBase - 2, LimbBase - 1},
        l2 \in {0, 1, LimbBase - 1},
        l3 \in {0, 1, LimbBase - 1} }

\* total_work / (1024 * 64) as usize
UsizeDivChunk(n) == <<n[2], n[3], n[4], 0>>

\* ... + 1, on a usize whose highest limb is 0 (no overflow of usize).
UsizeSucc(n) ==
    LET s1 == n[1] + 1
        s2 == n[2] + (s1 \div LimbBase)
        s3 == n[3] + (s2 \div LimbBase)
        s4 == n[4] + (s3 \div LimbBase)
    IN  <<s1 % LimbBase, s2 % LimbBase, s3 % LimbBase, s4 % LimbBase>>

\* A conversion that keeps the low 32 bits (an "as u32" cast).
TryIntoU32_wrapping(n) == [status |-> "ok", value |-> <<n[1], n[2]>>]

\* .try_into().unwrap() to u32: fails when the value needs more than 32 bits.
TryIntoU32(n) ==
    IF n[3] = 0 /\ n[4] = 0
    THEN [status |-> "ok", value |-> <<n[1], n[2]>>]
    ELSE [status |-> "panic", value |-> <<0, 0>>]

\* The first dispatch of the doc comment: (total_work, 1, 1).
mandelbrot_dispatch_size_usize_one_dimension(tw) ==
    LET x == TryIntoU32(tw)
    IN  IF x.status = "ok"
        THEN [status |-> "ok", x |-> x.value, y |-> 1, z |-> 1]
        ELSE [status |-> "panic", x |-> <<0, 0>>, y |-> 0, z |-> 0]

\* pub fn mandelbrot_dispatch_size(total_work: usize) -> (u32, u32, u32)
mandelbrot_dispatch_size_usize(tw) ==
    LET x == TryIntoU32(UsizeSucc(UsizeDivChunk(tw)))
    IN  IF x.status = "ok"
        THEN [status |-> "ok", x |-> x.value, y |-> MANDELBROT_DISPATCH_SIZE_Y, z |-> 1]
        ELSE [status |-> "panic", x |-> <<0, 0>>, y |-> 0, z |-> 0]

WideInit ==
    /\ DispatchIdle
    /\ ColouringInit(Size(1, 1))
    /\ work_list = <<>>
    /\ staging = <<>>
    /\ MainIdle
    /\ SyncIdle
    /\ passed = {}
    /\ wide_total_work \in WideTotalWorkInputs
    /\ wide_shape = [status |-> "none", x |-> <<0, 0>>, y |-> 0, z |-> 0]

\* One call of mandelbrot_dispatch_size(total_work).
PlanWide ==
    /\ wide_shape.status = "none"
    /\ wide_shape' = mandelbrot_dispatch_size_usize(wide_total_work)
    /\ UNCHANGED <<wide_total_work, passed>>
    /\ UNCHANGED <<dvars, cvars, staging, mvars, svars>>

SpecDispatchWide == WideInit /\ [][PlanWide]_vars

(***************************************************************************)
(* Claims about mandelbrot_dispatch_size                                   *)
(***************************************************************************)

\* C1: for every total_work in [0, 50_000_000] the returned shape is (x, y, 1)
\* with x >= 1, y = 1024 <= 65535 and x * y * 64 >= total_work.
C1_DispatchSafety ==
    dpc # "start" =>
        /\ total_work \in 0 .. MaxTotalWork
        /\ shape[1] >= 1
        /\ shape[2] = 1024
        /\ shape[2] <= MaxComputeWorkgroupsPerDimension
        /\ shape[3] = 1
        /\ shape[1] * shape[2] * MANDELBROT_WORKGROUP_SIZE_Y >= total_work

C1_Witness ==
    /\ dpc = "planned"
    /\ total_work = 0
    /\ shape = <<1, 1024, 1>>

\* C2: x is the least x >= 1 with x * y * 64 >= total_work, so that a
\* total_work of exactly k full chunks of y * 64 invocations gives x = k and
\* not k + 1.
C2_MinimalX ==
    dpc # "start" =>
        /\ shape[1] * shape[2] * MANDELBROT_WORKGROUP_SIZE_Y >= total_work
        /\ \A x \in 1 .. shape[1] :
              x * shape[2] * MANDELBROT_WORKGROUP_SIZE_Y >= total_work => x = shape[1]
        /\ \A k \in 1 .. (MaxChunks + 1) : total_work = k * ChunkSize => shape[1] = k

\* C3: over the invocations of the returned grid the linear index
\* x_id * (y * 64) + y_id is injective and reaches every index in
\* [0, total_work): a live work item has exactly one invocation, and an
\* invocation that is not the one of a live item has an index >= total_work.
C3_IndexBijection ==
    /\ dpc = "invoked" =>
          /\ inv_a[1] \in GridX(shape) /\ inv_a[2] \in GridY(shape)
          /\ inv_b[1] \in GridX(shape) /\ inv_b[2] \in GridY(shape)
          /\ (pixel_index(inv_a[1], inv_a[2]) = pixel_index(inv_b[1], inv_b[2])
                => inv_a = inv_b)
          /\ pixel_index(inv_a[1], inv_a[2]) >= 0
    /\ dpc = "covered" =>
          /\ item \in 0 .. (total_work - 1)
          /\ Cardinality({ x_id \in GridX(shape) :
                             LET y_id == item - pixel_index(x_id, 0)
                             IN  /\ y_id \in GridY(shape)
                                 /\ pixel_index(x_id, y_id) = item }) = 1

\* Two different invocations of a grid of more than one chunk, where the index
\* of the last invocation of chunk 0 and of the first of chunk 1 are compared.
C3_Witness ==
    /\ dpc = "invoked"
    /\ shape[1] >= 2
    /\ inv_a = <<0, ChunkSize - 1>>
    /\ inv_b = <<1, 0>>
    /\ pixel_index(inv_b[1], inv_b[2]) = pixel_index(inv_a[1], inv_a[2]) + 1


(***************************************************************************)
(* Claims about HistogramColouring                                         *)
(***************************************************************************)

\* Number of samples of this epoch with an iteration count strictly below l.
RECURSIVE SamplesBelow(_, _)
SamplesBelow(f, l) ==
    IF l <= 0 THEN 0
    ELSE (IF (l - 1) \in DOMAIN f THEN f[l - 1] ELSE 0) + SamplesBelow(f, l - 1)

\* C4: update_colours with an empty newly_escaped_pixels slice leaves every
\* ColourRange (value and escaped flag) and total_samples, bucket_labels,
\* histogram and histogram_ranges unchanged, whatever all_pixels holds and
\* whatever updates came before.
C4_EmptyUpdateNoOp ==
    [][last_op' = "update_empty" =>
          /\ colour_ranges' = colour_ranges
          /\ total_samples' = total_samples
          /\ bucket_labels' = bucket_labels
          /\ histogram' = histogram
          /\ histogram_ranges' = histogram_ranges]_vars

\* An empty update after two non-empty ones that left non-zero colour values.
C4_Witness ==
    /\ last_op = "update_empty"
    /\ updates = 2
    /\ total_samples = MaxSamples
    /\ \E i \in DOMAIN colour_ranges :
          colour_ranges[i].escaped = 1 /\ colour_ranges[i].value # F32Zero

\* C5: after a non-empty update histogram_ranges is non-decreasing in the
\* bucket label, the smallest label maps to 0, and the largest label's value
\* plus histogram[largest] / total_samples is 1.
C5_CdfValid ==
    (last_op = "update" /\ panicked = "none") =>
        LET labels == DOMAIN histogram_ranges
            lo == CHOOSE l \in labels : \A m \in labels : l <= m
            hi == CHOOSE l \in labels : \A m \in labels : m <= l
        IN  /\ labels # {}
            /\ \A l \in labels, m \in labels :
                  l <= m => F32Leq(histogram_ranges[l], histogram_ranges[m])
            /\ histogram_ranges[lo] = F32Zero
            /\ histogram_ranges[hi][1] * total_samples + histogram[hi] * histogram_ranges[hi][2]
                  = histogram_ranges[hi][2] * total_samples

\* Three buckets, filled by two updates, the lowest one last.
C5_Witness ==
    /\ last_op = "update"
    /\ panicked = "none"
    /\ updates = 2
    /\ Cardinality(DOMAIN histogram_ranges) = 3
    /\ \E l \in DOMAIN histogram_ranges, m \in DOMAIN histogram_ranges :
          l < m /\ histogram_ranges[l] # histogram_ranges[m]

\* C6: after a non-empty update, histogram_ranges[l] is the number of samples
\* of this epoch with an iteration count strictly below l, divided by
\* total_samples, and histogram_ranges has exactly the labels of histogram.
C6_RangesAreCdf ==
    (last_op = "update" /\ panicked = "none") =>
        /\ DOMAIN histogram_ranges = DOMAIN histogram
        /\ \A l \in DOMAIN histogram_ranges :
              histogram_ranges[l] =
                  F32Div(AsF32(SamplesBelow(folded, l)), AsF32(total_samples))

\* Two buckets with two samples below the upper one.
C6_Witness ==
    /\ last_op = "update"
    /\ panicked = "none"
    /\ total_samples = 3
    /\ \E l \in DOMAIN histogram_ranges : histogram_ranges[l] = <<2, 3>>

\* C7: after a non-empty update every cell whose pixel in all_pixels has
\* escaped == 1, also one that escaped in an earlier update, holds the
\* current histogram_ranges value of its iteration count.
C7_AllEscapedRecomputed ==
    (last_op = "update" /\ panicked = "none") =>
        \A i \in DOMAIN all_pixels :
            all_pixels[i].escaped = 1 =>
                /\ all_pixels[i].iteration_count \in DOMAIN histogram_ranges
                /\ colour_ranges[i].value = histogram_ranges[all_pixels[i].iteration_count]

\* The second non-empty update of an epoch, one sample each: one of the two
\* escaped cells was coloured by the first update, and the upper bucket's
\* value is no longer the 0 it had when it was alone.
C7_Witness ==
    /\ last_op = "update"
    /\ panicked = "none"
    /\ updates = 2
    /\ total_samples = 2
    /\ \E i \in DOMAIN all_pixels, j \in DOMAIN all_pixels :
          /\ all_pixels[i].escaped = 1 /\ all_pixels[j].escaped = 1
          /\ all_pixels[i].iteration_count < all_pixels[j].iteration_count
          /\ colour_ranges[i].value = F32Zero
          /\ colour_ranges[j].value = <<1, 2>>

\* C8: in every state reachable by new(), update_colours and reset(),
\* total_samples is the sum of the histogram's bucket counts.
C8_TotalIsSum == total_samples = MapSum(histogram)

\* After a reset and a new sample, with several buckets before it.
C8_Witness ==
    /\ was_reset
    /\ total_samples = MaxSamples
    /\ Cardinality(DOMAIN histogram) >= 2

\* The samples counted in f as one slice, in ascending order of iteration
\* count, all reported at cell 0.
RECURSIVE CanonicalBatch(_, _)
CanonicalBatch(f, labels) ==
    IF labels = {} THEN <<>>
    ELSE LET c == CHOOSE l \in labels : \A m \in labels : l <= m
         IN  [k \in 1 .. f[c] |-> Pixel(0, 0, 1, c)] \o CanonicalBatch(f, labels \ {c})

\* One update_colours call on a new colouring with all the samples of f at once.
OneShot(size, f, all) ==
    update_colours(size,
                   [total_samples |-> HistogramColouringNew.total_samples,
                    bucket_labels |-> HistogramColouringNew.bucket_labels,
                    histogram |-> HistogramColouringNew.histogram,
                    histogram_ranges |-> HistogramColouringNew.histogram_ranges,
                    colour_ranges |-> [i \in Cells(size) |-> ColourRangeDefault],
                    panicked |-> "none"],
                   all, CanonicalBatch(f, DOMAIN f))

\* C11: after a sequence of update_colours calls, total_samples, histogram,
\* histogram_ranges and the colour value of every escaped cell are those of a
\* single call that folds the same multiset of samples in one sorted slice:
\* neither the order inside a slice nor the split into calls matters.
C11_OrderIndependent ==
    (last_op = "update" /\ panicked = "none") =>
        \A st \in OneShot(screen_size, folded, all_pixels) :
            /\ st.panicked = "none"
            /\ total_samples = st.total_samples
            /\ histogram = st.histogram
            /\ histogram_ranges = st.histogram_ranges
            /\ \A i \in DOMAIN all_pixels :
                  all_pixels[i].escaped = 1 =>
                      colour_ranges[i].value = st.colour_ranges[i].value

\* Three samples in two buckets folded by two calls, one cell holding a
\* non-zero value.
C11_Witness ==
    /\ last_op = "update"
    /\ panicked = "none"
    /\ updates = 2
    /\ total_samples = 3
    /\ folded[3] = 1
    /\ folded[5] = 2
    /\ \E i \in DOMAIN all_pixels :
          all_pixels[i].escaped = 1 /\ colour_ranges[i].value = <<1, 3>>

\* C9: after reset() the colouring equals HistogramColouring::new():
\* total_samples == 0 and bucket_labels, histogram, histogram_ranges empty; the
\* rebuilt work list has width * height entries, none escaped.
C9_ResetClears ==
    last_op = "reset" =>
        /\ total_samples = 0
        /\ bucket_labels = <<>>
        /\ DOMAIN histogram = {}
        /\ DOMAIN histogram_ranges = {}
        /\ [total_samples |-> total_samples, bucket_labels |-> bucket_labels,
            histogram |-> histogram, histogram_ranges |-> histogram_ranges]
              = HistogramColouringNew
        /\ Len(work_list) = screen_size.width * screen_size.height
        /\ \A k \in DOMAIN work_list : work_list[k].escaped = 0

\* A reset that follows updates: a cell flagged by them is still flagged.
C9_Witness ==
    /\ last_op = "reset"
    /\ was_reset
    /\ \E i \in DOMAIN colour_ranges : colour_ranges[i].escaped = 1
    /\ Len(work_list) = 4

\* The first readback of the 2x2 scenario: three escaped points with
\* iteration counts 3, 3 and 5, one point still live.
C10_Scenario ==
    /\ screen_size = Size(2, 2)
    /\ last_op = "update"
    /\ updates = 1
    /\ folded[3] = 2
    /\ folded[5] = 1
    /\ \A c \in IterationCounts \ {3, 5} : folded[c] = 0

\* C10: after that frame total_samples == 3, histogram_ranges[3] == 0,
\* histogram_ranges[5] == 2/3, both count-3 cells have value 0, the count-5
\* cell has value 2/3, and the next work list has length 1.
C10_EndToEnd ==
    C10_Scenario =>
        /\ panicked = "none"
        /\ total_samples = 3
        /\ histogram_ranges[3] = F32Zero
        /\ histogram_ranges[5] = <<2, 3>>
        /\ Cardinality({ i \in DOMAIN all_pixels :
                            /\ all_pixels[i].escaped = 1
                            /\ all_pixels[i].iteration_count = 3
                            /\ colour_ranges[i] = [escaped |-> 1, value |-> F32Zero] }) = 2
        /\ Cardinality({ i \in DOMAIN all_pixels :
                            /\ all_pixels[i].escaped = 1
                            /\ all_pixels[i].iteration_count = 5
                            /\ colour_ranges[i] = [escaped |-> 1, value |-> <<2, 3>>] }) = 1
        /\ Cardinality({ i \in DOMAIN all_pixels : all_pixels[i].escaped = 0 }) = 1
        /\ Len(work_list) = 1
        /\ work_list[1].escaped = 0

\* The scenario in the first epoch, the count-5 point being the grid's last cell.
C10_Witness ==
    /\ C10_Scenario
    /\ ~was_reset
    /\ all_pixels[3].iteration_count = 5
    /\ Len(work_list) = 1

(***************************************************************************)
(* Claims about the frame loop and its readback                            *)
(***************************************************************************)

\* The records a frame step read: the first len(WorkList) slots of the staging
\* buffer after the copy.
FramePrefix == SubSeq(staging', 1, Len(work_list))

\* The positions (x, y) of the points of a work list.
Positions(list) == { <<list[k].x, list[k].y>> : k \in DOMAIN list }

\* C12: a frame that partitions N records routes every record to exactly one
\* of newly_escaped (escaped == 1, written to the point store at index
\* y * width + x) and the next work list (escaped == 0), so that
\* len(newly_escaped) + len(next work list) == N.
C12_PartitionComplete ==
    [][last_op' \in {"update", "update_empty"} =>
          LET N    == Len(work_list)
              esc  == { k \in 1 .. N : FramePrefix[k].escaped = 1 }
              live == { k \in 1 .. N : FramePrefix[k].escaped = 0 }
          IN  /\ esc \cup live = 1 .. N
              /\ Cardinality(esc) + Len(work_list') = N
              /\ total_samples' - total_samples = Cardinality(esc)
              /\ \A k \in esc :
                    /\ all_pixels'[FramePrefix[k].y * screen_size.width + FramePrefix[k].x]
                          = FramePrefix[k]
                    /\ <<FramePrefix[k].x, FramePrefix[k].y>> \notin Positions(work_list')
              /\ \A k \in live :
                    /\ \E j \in DOMAIN work_list' : work_list'[j] = FramePrefix[k]
                    /\ all_pixels'[FramePrefix[k].y * screen_size.width + FramePrefix[k].x]
                          = all_pixels[FramePrefix[k].y * screen_size.width + FramePrefix[k].x]
    ]_vars

\* A first frame in which two of the three points escaped and one stayed live.
C12_Witness ==
    /\ last_op = "update"
    /\ updates = 1
    /\ total_samples = 2
    /\ Len(work_list) = 1
    /\ Cardinality({ i \in DOMAIN all_pixels : all_pixels[i].escaped = 1 }) = 2

\* C13: in every reachable state of the frame loop the work list has at most
\* width * height entries and every entry has escaped == 0.
C13_WorkListLive ==
    /\ Len(work_list) <= screen_size.width * screen_size.height
    /\ \A k \in DOMAIN work_list : work_list[k].escaped = 0

\* A frame of a later epoch that shrank the rebuilt work list.
C13_Witness ==
    /\ was_reset
    /\ last_op = "update"
    /\ Len(work_list) = 2
    /\ panicked = "none"

\* C14: a step that is not a reset never makes the work list longer and leaves
\* a subset of its points; a reset restores the full grid.
C14_WorkListShrinks ==
    [][/\ last_op' # "reset" =>
              /\ Len(work_list') <= Len(work_list)
              /\ Positions(work_list') \subseteq Positions(work_list)
       /\ last_op' = "reset" =>
              /\ Len(work_list') = screen_size.width * screen_size.height
              /\ Positions(work_list') =
                    { <<x, y>> : x \in 0 .. (screen_size.width - 1),
                                 y \in 0 .. (screen_size.height - 1) }
    ]_vars

\* The second shrinking frame of an epoch.
C14_Witness ==
    /\ last_op = "update"
    /\ updates = 2
    /\ Len(work_list) = 1
    /\ total_samples = 2

\* C15: when the staging buffer holds more records than the work list is long,
\* a frame consumes exactly the first len(WorkList) records: the point store,
\* the samples folded into the histogram and the next work list are those of
\* the first len(WorkList) records alone, and the records behind them stay
\* where they are.
C15_PrefixOnly ==
    [][last_op' \in {"update", "update_empty"} =>
          /\ \A k \in (Len(work_list) + 1) .. Len(staging) : staging'[k] = staging[k]
          /\ all_pixels' = StoreEscaped(screen_size, all_pixels, Partition(FramePrefix, 1))
          /\ work_list' = Partition(FramePrefix, 0)
          /\ folded' = CountIn(folded, Partition(FramePrefix, 1))
          /\ total_samples' = total_samples + Len(Partition(FramePrefix, 1))
    ]_vars

\* Two frames of one epoch: the last staging slot still holds the escaped record
\* of the first frame, which the second, shorter frame did not fold again.
C15_Witness ==
    /\ last_op = "update"
    /\ updates = 2
    /\ total_samples = 2
    /\ Len(work_list) = 1
    /\ staging[Len(staging)].escaped = 1


\* The record in slot k of the frame's prefix breaks the readback invariant:
\* a flag outside {0, 1} or a position outside the grid.
MalformedAt(k) ==
    \/ FramePrefix[k].escaped \notin {0, 1}
    \/ FramePrefix[k].x >= screen_size.width
    \/ FramePrefix[k].y >= screen_size.height

FreshFor(buffer, size) ==
    /\ Len(buffer) = size.width * size.height
    /\ \A k \in 1 .. Len(buffer) : buffer[k] = 0

\* C16: after any sequence of resize, pan and zoom events, the handling of a
\* change leaves every cell of the current grid (current width * height)
\* zeroed in both buffers of each double-buffered pair, and the iteration
\* counter 0, before the next dispatch runs.
C16_ChangeLeavesGridFresh ==
    (last_event \in {"mouse_input", "mouse_wheel", "resized"} /\ crashed = "none") =>
        /\ current_iteration_count = 0
        /\ FreshFor(iteration_counts_in_buffer, grid_size)
        /\ FreshFor(iteration_counts_out_buffer, grid_size)
        /\ FreshFor(starting_values_in_buffer, grid_size)
        /\ FreshFor(starting_values_out_buffer, grid_size)

\* C17 as stated: whatever the number of pan / zoom events since the last
\* frame, exactly one reset has been applied for the next frame.
C17_OneResetPerFrame ==
    (events_since >= 1 /\ crashed = "none") => resets_since = 1

\* What one reset of the handlers makes of a buffer: the first
\* size.width * size.height entries zeroed, size being the captured one.
OneReset(buffer) ==
    [k \in 1 .. Len(buffer) |->
        IF k <= window_size.width * window_size.height THEN 0 ELSE buffer[k]]

\* C17 (amended): every pan / zoom event performs its own reset at once, so
\* as many resets as events are applied between two frames; after the first
\* of them a further one changes neither a per-pixel buffer nor the
\* iteration counter, so the state at the next frame is that of a single
\* reset, with the zoom and origin the events have accumulated.
C17_ResetPerEventSameState ==
    [][(/\ last_event' \in {"mouse_input", "mouse_wheel"}
        /\ handled' = handled + 1
        /\ crashed' = "none")
       => /\ resets_since' = resets_since + 1
          /\ resets_since' = events_since'
          /\ current_iteration_count' = 0
          /\ iteration_counts_in_buffer' = OneReset(iteration_counts_in_buffer)
          /\ iteration_counts_out_buffer' = OneReset(iteration_counts_out_buffer)
          /\ starting_values_in_buffer' = OneReset(starting_values_in_buffer)
          /\ starting_values_out_buffer' = OneReset(starting_values_out_buffer)
          /\ (events_since >= 1 =>
                /\ UNCHANGED bvars
                /\ current_iteration_count' = current_iteration_count)]_vars

\* Two pan / zoom events since the last frame, each with its reset, and a
\* zoom and an origin away from their start-up values.
C17_Witness ==
    /\ crashed = "none"
    /\ events_since = 2
    /\ resets_since = 2
    /\ handled = 2
    /\ zoom # <<1, 1>>
    /\ origin # <<<<0, 1>>, <<0, 1>>>>
    /\ current_iteration_count = 0


(***************************************************************************)
(* Claims about ReadbackSync                                               *)
(***************************************************************************)

\* C18: in every interleaving of frame thread, helper and device, the frame
\* thread reads the mapped staging bytes only after the completion callback
\* has signalled, which happens only after the copy has finished, which
\* happens only after the dispatch has finished writing: what it reads are
\* the bytes this frame's dispatch wrote.
C18_ReadAfterWrite ==
    /\ fpc \in {"read", "unmap"} => flag
    /\ flag => (device = "done" /\ hpc = "done")
    /\ device = "done" => staging_bytes = sync_frame
    /\ device \in {"copy", "done"} => output_bytes = sync_frame
    /\ fpc = "unmap" => read_bytes = sync_frame

\* The second frame has read its bytes after sleeping on the condition variable.
C18_Witness ==
    /\ fpc = "unmap"
    /\ sync_frame = 2
    /\ read_bytes = 2
    /\ waited

\* C19: once the device has completed the work the outstanding map waits for,
\* the frame thread, with helper and frame scheduled fairly, eventually goes
\* on to read, also when the callback signals before the frame has begun to
\* wait; and the frame goes on only by finding the flag set: there is no
\* time-out, so while the device has not completed the frame does not resume.
C19_NoLostWakeup ==
    /\ (map_requested /\ device = "done" /\ fpc # "unmap") ~> (fpc = "read")
    /\ [][(fpc # "read" /\ fpc' = "read") =>
             (fpc = "decide" /\ flag /\ device = "done")]_vars

\* The callback signalled before the frame had begun to wait, and the frame
\* went on to read without ever sleeping.
C19_Witness ==
    /\ fpc = "read"
    /\ ~waited
    /\ flag
    /\ hpc = "done"


(***************************************************************************)
(* Claims about HistogramColouring under an arbitrary caller               *)
(***************************************************************************)

PassedCounts == { p.iteration_count : p \in passed' }

C26_LookupSucceeds ==
    [][(/\ last_op' = "update"
        /\ \A i \in DOMAIN all_pixels' :
              all_pixels'[i].escaped = 1 => all_pixels'[i] \in passed')
       => panicked' # "lookup"]_vars

\* After a reset, two calls passed the two cells with different counts; the
\* second call looked both of them up.
C26_Witness ==
    /\ panicked = "none"
    /\ last_op = "update"
    /\ was_reset
    /\ updates = 2
    /\ \A i \in DOMAIN all_pixels : all_pixels[i].escaped = 1 /\ all_pixels[i] \in passed
    /\ all_pixels[0].iteration_count # all_pixels[1].iteration_count


\* C25: in every state reachable by update_colours and reset, bucket_labels
\* holds no label twice and its elements are exactly the keys of histogram;
\* the debug assertion on duplicate bucket labels never fires.
C25_LabelsDistinct ==
    /\ Len(bucket_labels) = Cardinality({ bucket_labels[k] : k \in DOMAIN bucket_labels })
    /\ { bucket_labels[k] : k \in DOMAIN bucket_labels } = DOMAIN histogram
    /\ panicked # "debug_assert"

\* Two labels, one of them folded twice and still listed once.
C25_Witness ==
    /\ last_op = "update"
    /\ Len(bucket_labels) = 2
    /\ \E label \in DOMAIN histogram : histogram[label] = 2

\* C28: update_colours sets a ColourRange's escaped flag only to 1, and only
\* at the index of a pixel passed as newly escaped; it writes value only
\* for cells whose pixel in all_pixels is escaped; no call sets a flag back to
\* 0, and reset() leaves colour_ranges as it is, so a cell flagged in one
\* epoch is still flagged, with its old value, after reset().
C28_FlagsOnlyRise ==
    [][/\ \A i \in DOMAIN colour_ranges :
             /\ colour_ranges'[i].escaped \in {0, 1}
             /\ colour_ranges[i].escaped = 1 => colour_ranges'[i].escaped = 1
             /\ colour_ranges'[i].escaped # colour_ranges[i].escaped =>
                   \E p \in passed' : p.y * screen_size.width + p.x = i
             /\ colour_ranges'[i].value # colour_ranges[i].value =>
                   (last_op' = "update" /\ all_pixels'[i].escaped = 1)
       /\ last_op' = "reset" => colour_ranges' = colour_ranges
    ]_vars

\* After the reset a cell of the old epoch is still flagged and keeps a
\* non-zero value, while the histogram is empty.
C28_Witness ==
    /\ last_op = "reset"
    /\ total_samples = 0
    /\ \E i \in DOMAIN colour_ranges :
          colour_ranges[i].escaped = 1 /\ colour_ranges[i].value # F32Zero

\* C29: across update_colours calls without a reset in between,
\* total_samples and every bucket's count never decrease and no bucket label
\* is removed.
C29_Accumulates ==
    [][last_op' \in {"update", "update_empty"} =>
          /\ total_samples' >= total_samples
          /\ \A label \in DOMAIN histogram :
                /\ label \in DOMAIN histogram'
                /\ histogram'[label] >= histogram[label]
          /\ \A k \in DOMAIN bucket_labels :
                \E j \in DOMAIN bucket_labels' : bucket_labels'[j] = bucket_labels[k]
    ]_vars

\* A second non-empty call of an epoch added a bucket to the one of the first.
C29_Witness ==
    /\ last_op = "update"
    /\ updates = 2
    /\ total_samples = 2
    /\ Len(bucket_labels) = 2
    /\ ~was_reset


(***************************************************************************)
(* Claims about mandelbrot_dispatch_size over the whole of usize           *)
(***************************************************************************)

\* C22 as stated: for every total_work of 64 bits mandelbrot_dispatch_size
\* returns a shape; the conversion to u32 never fails.
C22_DispatchTotal == wide_shape.status # "panic"

\* total_work >= 2^48 - 2^16, the least value whose quotient + 1 is 2^32.
QuotientOverflows(tw) ==
    \/ tw[4] > 0
    \/ tw[3] = LimbBase - 1 /\ tw[2] = LimbBase - 1

\* C22, amended: mandelbrot_dispatch_size returns (total_work / 65536 + 1,
\* 1024, 1) exactly for total_work < 2^48 - 2^16, total_work = 0 included,
\* and panics in the conversion to u32 for every larger total_work.
C22_DispatchPartial ==
    wide_shape.status # "none" =>
        IF QuotientOverflows(wide_total_work)
        THEN wide_shape.status = "panic"
        ELSE /\ wide_shape.status = "ok"
             /\ wide_shape.x[1] = (wide_total_work[2] + 1) % LimbBase
             /\ wide_shape.x[2] = wide_total_work[3]
                    + (IF wide_total_work[2] = LimbBase - 1 THEN 1 ELSE 0)
             /\ wide_shape.y = 1024
             /\ wide_shape.z = 1

\* The largest total_work that is accepted, 2^48 - 2^16 - 1: x is u32::MAX.
C22_Witness ==
    /\ wide_total_work = <<LimbBase - 1, LimbBase - 2, LimbBase - 1, 0>>
    /\ wide_shape.status = "ok"
    /\ wide_shape.x = <<LimbBase - 1, LimbBase - 1>>

\* C27: for every total_work < 65535 * 65536, the range [0, 50_000_000]
\* included, x is at most 65535 as well, so that x, y and z all respect the
\* limit on workgroups per dimension.
C27_XWithinLimit ==
    (/\ wide_shape.status # "none"
     /\ wide_total_work[4] = 0
     /\ wide_total_work[3] = 0
     /\ wide_total_work[2] < MaxComputeWorkgroupsPerDimension) =>
        /\ wide_shape.status = "ok"
        /\ wide_shape.x[2] = 0
        /\ wide_shape.x[1] <= MaxComputeWorkgroupsPerDimension
        /\ wide_shape.y <= MaxComputeWorkgroupsPerDimension
        /\ wide_shape.z <= MaxComputeWorkgroupsPerDimension

\* total_work = 50_000_000 gives x = 763.
C27_Witness ==
    /\ wide_total_work = <<61568, 762, 0, 0>>
    /\ wide_shape.status = "ok"
    /\ wide_shape.x = <<763, 0>>
    /\ wide_shape.y = 1024


(***************************************************************************)
(* Claims about the double-buffered pairs                                  *)
(***************************************************************************)

Pairs(h) == {h.starting_values, h.iteration_counts}

====
